---- MODULE Spec2Model ----
(***************************************************************************)
(* Model of flask_i18n.extension.Translations: the request-scoped lookup   *)
(* t(), the cache layer (_cache_get/_cache_set), startup preload, request  *)
(* setup (_before_request/_load_translations) and the "translations pull"  *)
(* command (_cli_pull).                                                    *)
(*                                                                         *)
(* Text (translation keys, templates, placeholder names) is a sequence of  *)
(* one-character strings so that str.replace can be computed.  Identifiers *)
(* that the code only formats into names (domains, locales) are strings.   *)
(***************************************************************************)
EXTENDS Integers, Sequences, FiniteSets, TLC

VARIABLES
    targs,      \* arguments and flask.g of one call of t()
    tret,       \* what that call returned (or raised); TPending before it
    config,     \* app.config and the kind of cache configured
    fs,         \* the translations directory: path -> file
    memcache,   \* process -> its app.extensions['_translations_memcache']
    extcache,   \* content of the external cache, shared by the processes
    webPc,      \* the request-serving process: "boot", "serving", "crashed"
    reqs,       \* request -> its state, its header and its flask.g
    cli,        \* the "flask translations pull" process
    lastGet,    \* outcome of the _cache_get call just made, NoGet otherwise
    lastSet,    \* the _cache_set call just made and the external set calls it
                \* issued, NoSet otherwise
    racers,     \* thread of the serving process inside _cache_get -> its
                \* position and local variables
    prev        \* summary of the pull run that ended last, when it completed and
                \* none of its targets existed as it started; NoRun otherwise

tvars == <<targs, tret>>

sysvars == <<config, fs, memcache, extcache, webPc, reqs, cli, lastGet, lastSet,
            racers, prev>>

vars == <<targs, tret, config, fs, memcache, extcache, webPc, reqs, cli, lastGet,
         lastSet, racers, prev>>

-----------------------------------------------------------------------------
(* Python values *)

PyNone == [ty |-> "None"]

PyStr(s) == [ty |-> "str", s |-> s]

PyInt(n) == [ty |-> "int", n |-> n]

\* a dict whose iteration order does not matter: a function key -> value
PyDict(f) == [ty |-> "dict", d |-> f]

\* a dict whose iteration order matters: the sequence of its items
PyODict(items) == [ty |-> "odict", items |-> items]

Raise(exc) == [ty |-> "raise", exc |-> exc]

IsRaise(v) == v.ty = "raise"

\* bool(v)
Truthy(v) ==
    CASE v.ty = "None"  -> FALSE
      [] v.ty = "str"   -> Len(v.s) > 0
      [] v.ty = "int"   -> v.n # 0
      [] v.ty = "dict"  -> DOMAIN v.d # {}
      [] v.ty = "odict" -> Len(v.items) > 0
      [] OTHER          -> TRUE

\* obj.get(key, default); an object without .get raises AttributeError
DictGet(obj, key, default) ==
    IF obj.ty = "dict"
    THEN IF key \in DOMAIN obj.d THEN PyStr(obj.d[key]) ELSE default
    ELSE Raise("AttributeError")

DigitChars == <<"0", "1", "2", "3", "4", "5", "6", "7", "8", "9">>

RECURSIVE Digits(_)
Digits(n) ==
    IF n < 10 THEN <<DigitChars[n + 1]>>
    ELSE Digits(n \div 10) \o <<DigitChars[(n % 10) + 1]>>

\* str(v)
StrOf(v) ==
    CASE v.ty = "str" -> v.s
      [] v.ty = "int" -> IF v.n < 0 THEN <<"-">> \o Digits(-v.n) ELSE Digits(v.n)
      [] OTHER        -> <<"N", "o", "n", "e">>

\* s.replace(old, new): every non-overlapping occurrence, left to right
RECURSIVE Replace(_, _, _)
Replace(s, old, new) ==
    IF old = <<>>
    THEN IF s = <<>> THEN new
         ELSE new \o <<Head(s)>> \o Replace(Tail(s), old, new)
    ELSE IF Len(s) < Len(old) THEN s
    ELSE IF SubSeq(s, 1, Len(old)) = old
         THEN new \o Replace(SubSeq(s, Len(old) + 1, Len(s)), old, new)
         ELSE <<Head(s)>> \o Replace(Tail(s), old, new)

-----------------------------------------------------------------------------
(* flask.g and the lookup t() *)

\* g.get(name): None when the attribute was never set
GGet(g, name) == IF name \in DOMAIN g THEN g[name] ELSE PyNone

\* the loop over parameters.items() visiting the items last to first
RECURSIVE ReplaceParams_Reversed(_, _)
ReplaceParams_Reversed(translation, items) ==
    IF items = <<>> THEN translation
    ELSE IF translation.ty # "str" THEN Raise("AttributeError")
    ELSE ReplaceParams_Reversed(
             PyStr(Replace(translation.s, items[Len(items)][1], StrOf(items[Len(items)][2]))),
             SubSeq(items, 1, Len(items) - 1))

\* for k, v in parameters.items(): translation = translation.replace(k, str(v))
RECURSIVE ReplaceParams(_, _)
ReplaceParams(translation, items) ==
    IF items = <<>> THEN translation
    ELSE IF translation.ty # "str" THEN Raise("AttributeError")
    ELSE ReplaceParams(PyStr(Replace(translation.s, Head(items)[1], StrOf(Head(items)[2]))),
                       Tail(items))

\* if parameters: ...
Substitute(translation, parameters) ==
    IF Truthy(parameters) THEN ReplaceParams(translation, parameters.items)
    ELSE translation

\* translations.get(key) if translations else None
PrimaryLookup(translations, key) ==
    IF Truthy(translations) THEN DictGet(translations, key, PyNone) ELSE PyNone

\* t() asking the fallback dictionary first
t_FallbackFirst(g, key, domain, parameters) ==
    LET fallback    == GGet(g, "fallback_translations_" \o domain)
        translation == PrimaryLookup(fallback, key)
    IN  IF translation = PyNone
        THEN LET translations == GGet(g, "translations_" \o domain)
             IN  IF ~Truthy(translations) THEN PyStr(key)
                 ELSE Substitute(DictGet(translations, key, PyStr(key)), parameters)
        ELSE Substitute(translation, parameters)

\* t() calling .get on whatever flask.g holds, None included
t_NoGuard(g, key, domain, parameters) ==
    LET translation == DictGet(GGet(g, "translations_" \o domain), key, PyNone)
    IN  IF IsRaise(translation) THEN translation
        ELSE IF translation = PyNone
        THEN Substitute(DictGet(GGet(g, "fallback_translations_" \o domain), key, PyStr(key)),
                        parameters)
        ELSE Substitute(translation, parameters)

\* t() raising KeyError for a key that no dictionary holds
t_KeyError(g, key, domain, parameters) ==
    LET translations == GGet(g, "translations_" \o domain)
        translation  == PrimaryLookup(translations, key)
    IN  IF translation = PyNone
        THEN LET fallback == GGet(g, "fallback_translations_" \o domain)
             IN  IF ~Truthy(fallback) THEN PyStr(key)
                 ELSE Substitute(DictGet(fallback, key, Raise("KeyError")), parameters)
        ELSE Substitute(translation, parameters)

\* Translations.t(key, domain, parameters) with flask.g = g
t(g, key, domain, parameters) ==
    LET translations == GGet(g, "translations_" \o domain)
        translation  == PrimaryLookup(translations, key)
    IN  IF IsRaise(translation) THEN translation
        ELSE IF translation = PyNone
        THEN LET fallback == GGet(g, "fallback_translations_" \o domain)
             IN  IF ~Truthy(fallback) THEN PyStr(key)
                 ELSE Substitute(DictGet(fallback, key, PyStr(key)), parameters)
        ELSE Substitute(translation, parameters)

\* Translations._jinja_trans_filter: self.t(key, domain, parameters=kwargs or None)
JinjaTransFilter(g, key, domain, kwargs) ==
    t(g, key, domain, IF Truthy(kwargs) THEN kwargs ELSE PyNone)

-----------------------------------------------------------------------------
(* Configuration *)

\* app.config['SUPPORTED_DOMAINS'], in iteration order
SUPPORTED_DOMAINS == <<"messages">>

\* app.config['SUPPORTED_LOCALES'], in iteration order
SUPPORTED_LOCALES == <<"en", "fr">>

\* app.config['FALLBACK_LOCALE']
FALLBACK_LOCALE == "en"

Range(seq) == {seq[i] : i \in 1..Len(seq)}

\* Translations._cache_key
CacheKey(domain, locale) == domain \o "_" \o locale

\* os.path.join(base, f'{domain}_{locale}.json'), relative to TRANSLATIONS_DIR
FilePath(domain, locale) == domain \o "_" \o locale \o ".json"

\* out_path.with_suffix(out_path.suffix + '.tmp')
TmpPath(path) == path \o ".tmp"

-----------------------------------------------------------------------------
(* The Translation Store: files of JSON text *)

\* A file is a sequence of tokens: "{", one token per "key": "value" member,
\* "}", and the trailing newline.
TokOpen  == [t |-> "{"]
TokClose == [t |-> "}"]
TokNl    == [t |-> "nl"]
TokPair(k, v) == [t |-> "pair", k |-> k, v |-> v]

NoFile == [exists |-> FALSE]
FileOf(data) == [exists |-> TRUE, data |-> data]

\* code point order of the characters used
Alphabet == <<"a", "b", "c">>

Ord(c) == CHOOSE i \in 1..Len(Alphabet) : Alphabet[i] = c

\* a < b for str
RECURSIVE StrLess(_, _)
StrLess(a, b) ==
    IF b = <<>> THEN FALSE
    ELSE IF a = <<>> THEN TRUE
    ELSE IF Head(a) = Head(b) THEN StrLess(Tail(a), Tail(b))
    ELSE Ord(Head(a)) < Ord(Head(b))

\* sorted(keys)
RECURSIVE Sorted(_)
Sorted(keys) ==
    IF keys = {} THEN <<>>
    ELSE LET least == CHOOSE k \in keys : \A o \in keys \ {k} : StrLess(k, o)
         IN  <<least>> \o Sorted(keys \ {least})

\* json.dump(translations, f, ensure_ascii=False, indent=2, sort_keys=True)
\* followed by f.write('\n'): the whole text of the file
Dump(dict) ==
    LET keys == Sorted(DOMAIN dict.d)
    IN  <<TokOpen>> \o [i \in 1..Len(keys) |-> TokPair(keys[i], dict.d[keys[i]])]
                    \o <<TokClose, TokNl>>

\* the text is one complete JSON object, trailing whitespace allowed
IsJsonObject(data) ==
    /\ Len(data) >= 2
    /\ data[1] = TokOpen
    /\ \E m \in 2..Len(data) :
          /\ data[m] = TokClose
          /\ \A i \in 2..(m - 1) : data[i].t = "pair"
          /\ \A i \in (m + 1)..Len(data) : data[i] = TokNl

\* json.load(f): the last member of each name wins
Load(data) ==
    IF ~IsJsonObject(data) THEN Raise("JSONDecodeError")
    ELSE LET m     == CHOOSE i \in 2..Len(data) : data[i] = TokClose
             names == {data[i].k : i \in 2..(m - 1)}
             last(k) == CHOOSE i \in 2..(m - 1) :
                          /\ data[i].k = k
                          /\ \A j \in (i + 1)..(m - 1) : data[j].k # k
         IN  PyDict([k \in names |-> data[last(k)].v])

\* Translations._read_translations_file
ReadTranslationsFile(fsys, domain, locale) ==
    LET file == fsys[FilePath(domain, locale)]
    IN  IF ~file.exists THEN Raise("FileNotFoundError") ELSE Load(file.data)

-----------------------------------------------------------------------------
(* The Cache Layer.  A cache state c holds the process-wide map c.mem      *)
(* (app.extensions['_translations_memcache']) and the content c.ext of the *)
(* external cache (app.extensions['translations_cache']), both functions   *)
(* from the keys they hold to dictionaries.                                *)

\* store[key] = value
Put(store, key, value) ==
    [k \in (DOMAIN store) \cup {key} |-> IF k = key THEN value ELSE store[k]]

\* the store without key
Drop(store, key) == [k \in (DOMAIN store) \ {key} |-> store[k]]

\* cache.get(key) of the external cache
ExtGet(ext, key) == IF key \in DOMAIN ext THEN ext[key] ELSE PyNone

\* _cache_set without the except clause: a set() that rejects the timeout
\* keyword ends it with nothing stored
CacheSet_NoRetry(conf, c, domain, locale, value) ==
    LET key == CacheKey(domain, locale)
    IN  IF conf.cache = "memory"
        THEN [mem |-> Put(c.mem, key, value), ext |-> c.ext, calls |-> <<>>]
        ELSE IF conf.timeout = PyNone
        THEN [mem |-> c.mem, ext |-> Put(c.ext, key, value), calls |-> <<"plain">>]
        ELSE IF conf.timeoutKw
        THEN [mem |-> c.mem, ext |-> Put(c.ext, key, value), calls |-> <<"timeout">>]
        ELSE [mem |-> c.mem, ext |-> c.ext, calls |-> <<"timeout">>]

\* the dictionary old after old.update(new)
Merged(old, new) ==
    PyDict([k \in (DOMAIN old.d) \cup (DOMAIN new.d) |->
               IF k \in DOMAIN new.d THEN new.d[k] ELSE old.d[k]])

\* _cache_set updating the dictionary the cache already holds for the key
\* instead of replacing the entry
CacheSet_Merge(conf, c, domain, locale, value) ==
    LET key == CacheKey(domain, locale)
    IN  IF conf.cache = "memory"
        THEN [mem |-> Put(c.mem, key, IF key \in DOMAIN c.mem
                                      THEN Merged(c.mem[key], value) ELSE value),
              ext |-> c.ext, calls |-> <<>>]
        ELSE [mem |-> c.mem,
              ext |-> Put(c.ext, key, IF key \in DOMAIN c.ext
                                      THEN Merged(c.ext[key], value) ELSE value),
              calls |-> IF conf.timeout = PyNone THEN <<"plain">>
                        ELSE IF conf.timeoutKw THEN <<"timeout">>
                        ELSE <<"timeout", "plain">>]

\* Translations._cache_set; calls lists the external cache.set calls made, each
\* "timeout" (with the keyword) or "plain"
CacheSet(conf, c, domain, locale, value) ==
    LET key == CacheKey(domain, locale)
    IN  IF conf.cache = "memory"
        THEN [mem |-> Put(c.mem, key, value), ext |-> c.ext, calls |-> <<>>]
        ELSE IF conf.timeout = PyNone
        THEN [mem |-> c.mem, ext |-> Put(c.ext, key, value), calls |-> <<"plain">>]
        ELSE IF conf.timeoutKw
        THEN [mem |-> c.mem, ext |-> Put(c.ext, key, value), calls |-> <<"timeout">>]
        ELSE [mem |-> c.mem, ext |-> Put(c.ext, key, value),
              calls |-> <<"timeout", "plain">>]

\* _cache_get that returns what it loaded without storing it
CacheGet_NoStore(conf, c, fsys, domain, locale) ==
    LET key  == CacheKey(domain, locale)
        read == ReadTranslationsFile(fsys, domain, locale)
    IN  IF conf.cache = "memory"
        THEN IF key \notin DOMAIN c.mem
             THEN [mem |-> c.mem, ext |-> c.ext, val |-> read, loads |-> 1]
             ELSE [mem |-> c.mem, ext |-> c.ext, val |-> c.mem[key], loads |-> 0]
        ELSE IF ExtGet(c.ext, key) = PyNone
             THEN [mem |-> c.mem, ext |-> c.ext, val |-> read, loads |-> 1]
             ELSE [mem |-> c.mem, ext |-> c.ext, val |-> ExtGet(c.ext, key),
                   loads |-> 0]

\* Translations._cache_get; val is the dictionary returned or the exception
\* raised, loads the number of reads of the Translation Store
CacheGet(conf, c, fsys, domain, locale) ==
    LET key  == CacheKey(domain, locale)
        read == ReadTranslationsFile(fsys, domain, locale)
    IN  IF conf.cache = "memory"
        THEN IF key \notin DOMAIN c.mem
             THEN IF IsRaise(read)
                  THEN [mem |-> c.mem, ext |-> c.ext, val |-> read, loads |-> 1]
                  ELSE [mem |-> Put(c.mem, key, read), ext |-> c.ext,
                        val |-> read, loads |-> 1]
             ELSE [mem |-> c.mem, ext |-> c.ext, val |-> c.mem[key], loads |-> 0]
        ELSE IF ExtGet(c.ext, key) = PyNone
             THEN IF IsRaise(read)
                  THEN [mem |-> c.mem, ext |-> c.ext, val |-> read, loads |-> 1]
                  ELSE LET set == CacheSet(conf, c, domain, locale, read)
                       IN  [mem |-> set.mem, ext |-> set.ext, val |-> read, loads |-> 1]
             ELSE [mem |-> c.mem, ext |-> c.ext, val |-> ExtGet(c.ext, key),
                   loads |-> 0]

\* the pairs of _preload_all's two loops, in the order it visits them
PreloadPairs ==
    LET nl == Len(SUPPORTED_LOCALES)
    IN  [i \in 1..(Len(SUPPORTED_DOMAINS) * nl) |->
            <<SUPPORTED_DOMAINS[((i - 1) \div nl) + 1], SUPPORTED_LOCALES[((i - 1) % nl) + 1]>>]

\* _preload_all without the except clause: a missing file ends it
RECURSIVE PreloadFrom_NoExcept(_, _, _, _)
PreloadFrom_NoExcept(conf, c, fsys, i) ==
    IF i > Len(PreloadPairs) THEN [mem |-> c.mem, ext |-> c.ext, raised |-> PyNone]
    ELSE LET domain == PreloadPairs[i][1]
             locale == PreloadPairs[i][2]
             read   == ReadTranslationsFile(fsys, domain, locale)
         IN  IF IsRaise(read)
             THEN [mem |-> c.mem, ext |-> c.ext, raised |-> read]
             ELSE LET set == CacheSet(conf, c, domain, locale, read)
                  IN  PreloadFrom_NoExcept(conf, [mem |-> set.mem, ext |-> set.ext],
                                           fsys, i + 1)

\* Translations._preload_all from the i-th pair on; raised is the exception
\* that ended it, None when it ran to the end
RECURSIVE PreloadFrom(_, _, _, _)
PreloadFrom(conf, c, fsys, i) ==
    IF i > Len(PreloadPairs) THEN [mem |-> c.mem, ext |-> c.ext, raised |-> PyNone]
    ELSE LET domain == PreloadPairs[i][1]
             locale == PreloadPairs[i][2]
             read   == ReadTranslationsFile(fsys, domain, locale)
         IN  IF IsRaise(read)
             THEN IF read.exc = "FileNotFoundError"
                  THEN PreloadFrom(conf, c, fsys, i + 1)
                  ELSE [mem |-> c.mem, ext |-> c.ext, raised |-> read]
             ELSE LET set == CacheSet(conf, c, domain, locale, read)
                  IN  PreloadFrom(conf, [mem |-> set.mem, ext |-> set.ext], fsys, i + 1)

\* Translations.init_app: the part that touches the cache
InitApp(conf, c, fsys) ==
    IF conf.preload THEN PreloadFrom(conf, c, fsys, 1)
    ELSE [mem |-> c.mem, ext |-> c.ext, raised |-> PyNone]

-----------------------------------------------------------------------------
(* Request setup *)

NoHeader == [present |-> FALSE]
Header(value) == [present |-> TRUE, value |-> value]

\* request.headers.get(header, default)
HeaderGet(header, default) == IF header.present THEN header.value ELSE default

\* setattr(g, name, value)
SetAttr(g, name, value) ==
    [n \in (DOMAIN g) \cup {name} |-> IF n = name THEN value ELSE g[n]]

\* _load_translations storing the primary dictionary as the fallback one
\* whatever the locale
RECURSIVE LoadDomains_SameFallback(_, _, _, _, _, _)
LoadDomains_SameFallback(conf, c, fsys, g, locale, i) ==
    IF i > Len(SUPPORTED_DOMAINS)
    THEN [mem |-> c.mem, ext |-> c.ext, g |-> g, raised |-> PyNone]
    ELSE LET domain  == SUPPORTED_DOMAINS[i]
             primary == CacheGet(conf, c, fsys, domain, locale)
             c1      == [mem |-> primary.mem, ext |-> primary.ext]
             g1      == SetAttr(g, "translations_" \o domain, primary.val)
         IN  IF IsRaise(primary.val)
             THEN [mem |-> c1.mem, ext |-> c1.ext, g |-> g, raised |-> primary.val]
             ELSE LoadDomains_SameFallback(
                      conf, c1, fsys,
                      SetAttr(g1, "fallback_translations_" \o domain, primary.val),
                      locale, i + 1)

\* Translations._load_translations from the i-th domain on, request_locale
\* already replaced by the fallback locale when unsupported
RECURSIVE LoadDomains(_, _, _, _, _, _)
LoadDomains(conf, c, fsys, g, locale, i) ==
    IF i > Len(SUPPORTED_DOMAINS)
    THEN [mem |-> c.mem, ext |-> c.ext, g |-> g, raised |-> PyNone]
    ELSE LET domain  == SUPPORTED_DOMAINS[i]
             primary == CacheGet(conf, c, fsys, domain, locale)
             c1      == [mem |-> primary.mem, ext |-> primary.ext]
             g1      == SetAttr(g, "translations_" \o domain, primary.val)
         IN  IF IsRaise(primary.val)
             THEN [mem |-> c1.mem, ext |-> c1.ext, g |-> g, raised |-> primary.val]
             ELSE IF locale = FALLBACK_LOCALE
             THEN LoadDomains(conf, c1, fsys,
                              SetAttr(g1, "fallback_translations_" \o domain, primary.val),
                              locale, i + 1)
             ELSE LET fallback == CacheGet(conf, c1, fsys, domain, FALLBACK_LOCALE)
                      c2       == [mem |-> fallback.mem, ext |-> fallback.ext]
                  IN  IF IsRaise(fallback.val)
                      THEN [mem |-> c2.mem, ext |-> c2.ext, g |-> g1,
                            raised |-> fallback.val]
                      ELSE LoadDomains(conf, c2, fsys,
                                       SetAttr(g1, "fallback_translations_" \o domain,
                                               fallback.val),
                                       locale, i + 1)

\* Translations._load_translations
LoadTranslations(conf, c, fsys, g, request_locale) ==
    LoadDomains(conf, c, fsys, g,
                IF request_locale \notin Range(SUPPORTED_LOCALES)
                THEN FALLBACK_LOCALE ELSE request_locale,
                1)

\* Translations._before_request, from a fresh flask.g
BeforeRequestOf(conf, c, fsys, header) ==
    LET request_locale == HeaderGet(header, FALLBACK_LOCALE)
        g == SetAttr(<<>>, "request_locale", request_locale)
    IN  LoadTranslations(conf, c, fsys, g, request_locale)

\* Translations.get_request_locale
GetRequestLocale(g) ==
    IF "request_locale" \in DOMAIN g THEN g["request_locale"] ELSE FALLBACK_LOCALE

-----------------------------------------------------------------------------
(* The pull command: values it reads *)

\* isinstance(v, dict)
IsDict(v) == v.ty \in {"dict", "odict"}

\* the i-th (name, value) of payload.items()
ItemName(obj, i) == obj.items[i][1]
ItemValue(obj, i) == obj.items[i][2]

\* requests.get(...) followed by raise_for_status(): a transport failure or a
\* non-success status raises RequestException
RespError == [status |-> "error"]
RespOk(body) == [status |-> "ok", body |-> body]

\* a body that resp.json() cannot parse
Garbage == [ty |-> "garbage"]

\* a JSON value that is no object
JsonList == [ty |-> "list"]

-----------------------------------------------------------------------------
(* Inputs of the lookup specification *)

KA == <<"a">>
KBA == <<"b", "a">>
KC == <<"c">>

\* keys asked for; KC is in no dictionary
LookupKeys == {KA, KBA, KC}

DictKeys == {KA, KBA}

Templates == {<<>>, <<"a">>, <<"a", "b">>}

\* every dictionary with keys among DictKeys and values among Templates
AllDicts == UNION {[ks -> Templates] : ks \in SUBSET DictKeys}

TDomains == {"messages", "errors"}

\* flask.g of a request: the two attributes of domain "messages", each one
\* never set, or a dictionary
Unset == [ty |-> "unset"]

GOf(primary, fallback) ==
    LET names == (IF primary = Unset THEN {} ELSE {"translations_messages"}) \cup
                 (IF fallback = Unset THEN {} ELSE {"fallback_translations_messages"})
    IN  [n \in names |-> IF n = "translations_messages" THEN primary ELSE fallback]

OptDicts == {Unset} \cup {PyDict(d) : d \in AllDicts}

LookupGs == {GOf(p, f) : p \in OptDicts, f \in OptDicts}

LookupParams ==
    { PyNone,
      PyODict(<<>>),
      PyODict(<< <<KA, PyStr(<<"c">>)>> >>),
      PyODict(<< <<KC, PyInt(7)>> >>),
      PyODict(<< <<KA, PyStr(<<"b">>)>>, <<<<"b">>, PyStr(<<"c">>)>> >>),
      PyODict(<< <<<<"b">>, PyStr(<<"c">>)>>, <<KA, PyStr(<<"b">>)>> >>) }

TPending == [ty |-> "pending"]

-----------------------------------------------------------------------------
(* Inputs of the system specification *)

D0 == PyDict(<<>>)
D1 == PyDict([k \in {KA} |-> <<"a">>])
D2 == PyDict([k \in {KA, KBA} |-> IF k = KA THEN <<"a", "b">> ELSE <<"a">>])

Procs == {"web", "cli"}

Reqs == {"r1"}

Pairs == {<<d, l>> : d \in Range(SUPPORTED_DOMAINS), l \in Range(SUPPORTED_LOCALES)}

TargetPaths == {FilePath(p[1], p[2]) : p \in Pairs}

Paths == TargetPaths \cup {TmpPath(p) : p \in TargetPaths}

CacheKeys == {CacheKey(p[1], p[2]) : p \in Pairs}

\* a file somebody wrote by hand: members unsorted, no trailing newline
HandWritten == FileOf(<<TokOpen, TokPair(KBA, <<"a">>), TokPair(KA, <<"a">>), TokClose>>)

\* what each target may hold when the model starts
InitialFiles ==
    [p \in TargetPaths |->
        IF p = FilePath("messages", FALLBACK_LOCALE) THEN {NoFile, FileOf(Dump(D1))}
        ELSE {NoFile, HandWritten}]

\* values of the SELECTED-LOCALE header
Headers == {NoHeader, Header("fr"), Header("xx")}

\* cache "memory": app.extensions has no 'translations_cache'; timeout is
\* TRANSLATIONS_CACHE_TIMEOUT; timeoutKw: the external cache's set() accepts
\* the timeout keyword; token: TRANSLATIONS_PROVIDER_TOKEN is set in the
\* configuration or the environment
Conf(cache, timeout, timeoutKw, preload, token) ==
    [cache |-> cache, timeout |-> timeout, timeoutKw |-> timeoutKw,
     preload |-> preload, token |-> token]

Configs ==
    { Conf("memory", PyNone, TRUE, TRUE, TRUE),
      Conf("memory", PyNone, TRUE, FALSE, TRUE),
      Conf("memory", PyNone, TRUE, TRUE, FALSE),
      Conf("external", PyNone, TRUE, TRUE, TRUE),
      Conf("external", PyInt(60), TRUE, FALSE, TRUE),
      Conf("external", PyInt(60), FALSE, TRUE, TRUE) }

\* what the provider may answer
Responses ==
    { RespError,
      RespOk(Garbage),
      RespOk(JsonList),
      RespOk(PyODict(<< <<"en", PyODict(<< <<"messages", D1>> >>)>> >>)),
      RespOk(PyODict(<< <<"en", PyODict(<< <<"messages", D2>> >>)>>,
                        <<"fr", PyODict(<< <<"messages", D0>> >>)>> >>)),
      RespOk(PyODict(<< <<"en", PyStr(<<"a">>)>>,
                        <<"fr", PyODict(<< <<"errors", JsonList>>,
                                           <<"messages", D2>> >>)>> >>)) }

NoRun == [ok |-> FALSE]

NoGet == [domain |-> "none"]

NoSet == [domain |-> "none"]

IdleReq == [st |-> "idle"]

CliOff == [pc |-> "off"]

-----------------------------------------------------------------------------
(* Lookup specification: one call of t() on drawn inputs *)

SysIdle ==
    /\ config = [cache |-> "memory", timeout |-> PyNone, timeoutKw |-> TRUE,
                 preload |-> FALSE, token |-> FALSE]
    /\ fs = [p \in Paths |-> NoFile]
    /\ memcache = [p \in Procs |-> <<>>]
    /\ extcache = <<>>
    /\ webPc = "boot"
    /\ reqs = [r \in Reqs |-> IdleReq]
    /\ cli = CliOff
    /\ lastGet = NoGet
    /\ lastSet = NoSet
    /\ racers = <<>>
    /\ prev = NoRun

\* how the lookup is reached: a call of t(), or the template filter "trans"
\* given keyword arguments
Vias == {"t", "trans"}

InitLookup ==
    /\ targs \in [via : Vias, g : LookupGs, key : LookupKeys, domain : TDomains,
                  parameters : LookupParams]
    /\ targs.via = "trans" => targs.parameters.ty = "odict"
    /\ tret = TPending
    /\ SysIdle

CallT ==
    /\ tret = TPending
    /\ targs.via = "t"
    /\ tret' = t(targs.g, targs.key, targs.domain, targs.parameters)
    /\ UNCHANGED targs
    /\ UNCHANGED sysvars

\* {{ key | trans(domain, **kwargs) }}
CallTransFilter ==
    /\ tret = TPending
    /\ targs.via = "trans"
    /\ tret' = JinjaTransFilter(targs.g, targs.key, targs.domain, targs.parameters)
    /\ UNCHANGED targs
    /\ UNCHANGED sysvars

NextLookup == CallT \/ CallTransFilter

SpecLookup == InitLookup /\ [][NextLookup]_vars

-----------------------------------------------------------------------------
(* Cache-set specification: _cache_set calls in one process, under every   *)
(* kind of cache and timeout                                               *)

\* the configurations of Configs, and an external cache with timeout 0, and
\* one that takes no timeout keyword while no timeout is configured
SetConfigs ==
    Configs \cup { Conf("external", PyInt(0), TRUE, FALSE, TRUE),
                   Conf("external", PyInt(0), FALSE, FALSE, TRUE),
                   Conf("external", PyNone, FALSE, FALSE, TRUE) }

SetValues == {D0, D1, D2}

InitCacheSet ==
    /\ targs = [via |-> "t", g |-> <<>>, key |-> KA, domain |-> "messages",
                parameters |-> PyNone]
    /\ tret = TPending
    /\ config \in SetConfigs
    /\ fs = [p \in Paths |-> NoFile]
    /\ memcache = [p \in Procs |-> <<>>]
    /\ extcache = <<>>
    /\ webPc = "serving"
    /\ reqs = [r \in Reqs |-> IdleReq]
    /\ cli = CliOff
    /\ lastGet = NoGet
    /\ lastSet = NoSet
    /\ racers = <<>>
    /\ prev = NoRun

\* one call of _cache_set in the serving process
CacheSetCall(domain, locale, value) ==
    /\ LET res == CacheSet(config, [mem |-> memcache["web"], ext |-> extcache],
                           domain, locale, value)
       IN  /\ memcache' = [memcache EXCEPT !["web"] = res.mem]
           /\ extcache' = res.ext
           /\ lastSet' = [domain |-> domain, locale |-> locale, value |-> value,
                          calls |-> res.calls]
    /\ UNCHANGED <<targs, tret, racers, config, fs, webPc, reqs, cli, lastGet, prev>>

NextCacheSet == \E p \in Pairs, value \in SetValues : CacheSetCall(p[1], p[2], value)

SpecCacheSet == InitCacheSet /\ [][NextCacheSet]_vars

-----------------------------------------------------------------------------
(* System specification: the serving process, its requests, the pull       *)
(* command and the external cache                                          *)

Init ==
    /\ targs = [via |-> "t", g |-> <<>>, key |-> KA, domain |-> "messages",
                parameters |-> PyNone]
    /\ tret = TPending
    /\ config \in Configs
    /\ \E files \in [TargetPaths -> UNION {InitialFiles[p] : p \in TargetPaths}] :
          /\ \A p \in TargetPaths : files[p] \in InitialFiles[p]
          /\ fs = [p \in Paths |-> IF p \in TargetPaths THEN files[p] ELSE NoFile]
    /\ memcache = [p \in Procs |-> <<>>]
    /\ extcache = <<>>
    /\ webPc = "boot"
    /\ reqs = [r \in Reqs |-> IdleReq]
    /\ cli = CliOff
    /\ lastGet = NoGet
    /\ lastSet = NoSet
    /\ racers = <<>>
    /\ prev = NoRun

\* the cache as process p sees it
CacheOf(p) == [mem |-> memcache[p], ext |-> extcache]

\* the cache after process p ran an operation that left it as r
SetCache(p, r) ==
    /\ memcache' = [memcache EXCEPT ![p] = r.mem]
    /\ extcache' = r.ext

\* Translations(app): init_app in the serving process
WebBoot ==
    /\ webPc = "boot"
    /\ LET r == InitApp(config, CacheOf("web"), fs)
       IN  /\ SetCache("web", r)
           /\ webPc' = IF r.raised = PyNone THEN "serving" ELSE "crashed"
    /\ lastGet' = NoGet
    /\ UNCHANGED <<targs, tret, lastSet, racers, config, fs, reqs, cli, prev>>

\* a request arrives: _before_request
BeforeRequest(r, header) ==
    /\ webPc = "serving"
    /\ reqs[r].st = "idle"
    /\ LET res == BeforeRequestOf(config, CacheOf("web"), fs, header)
       IN  /\ SetCache("web", res)
           /\ reqs' = [reqs EXCEPT ![r] =
                         [st |-> IF res.raised = PyNone THEN "ready" ELSE "failed",
                          header |-> header, g |-> res.g, raised |-> res.raised]]
    /\ lastGet' = NoGet
    /\ UNCHANGED <<targs, tret, lastSet, racers, config, fs, webPc, cli, prev>>

\* the request ends and its flask.g is discarded
EndRequest(r) ==
    /\ reqs[r].st # "idle"
    /\ reqs' = [reqs EXCEPT ![r] = IdleReq]
    /\ lastGet' = NoGet
    /\ UNCHANGED <<targs, tret, lastSet, racers, config, fs, memcache, extcache,
                 webPc, cli, prev>>

\* one call of _cache_get in the serving process
CacheGetCall(domain, locale) ==
    /\ webPc = "serving"
    /\ LET res == CacheGet(config, CacheOf("web"), fs, domain, locale)
       IN  /\ SetCache("web", res)
           /\ lastGet' = [domain |-> domain, locale |-> locale, val |-> res.val,
                          loads |-> res.loads]
    /\ UNCHANGED <<targs, tret, lastSet, racers, config, fs, webPc, reqs, cli, prev>>

\* the external cache drops an entry (expiry, eviction)
Evict(key) ==
    /\ config.cache = "external"
    /\ key \in DOMAIN extcache
    /\ extcache' = Drop(extcache, key)
    /\ lastGet' = NoGet
    /\ UNCHANGED <<targs, tret, lastSet, racers, config, fs, memcache, webPc, reqs, cli, prev>>

\* every (locale, domain, translations) the two loops of _cli_pull reach the
\* file part with, in order
RECURSIVE DomainEntries(_, _, _)
DomainEntries(locale, domains, j) ==
    IF j > Len(domains.items) THEN <<>>
    ELSE (IF IsDict(ItemValue(domains, j))
          THEN << <<locale, ItemName(domains, j), ItemValue(domains, j)>> >>
          ELSE <<>>) \o DomainEntries(locale, domains, j + 1)

RECURSIVE LocaleEntries(_, _)
LocaleEntries(payload, i) ==
    IF i > Len(payload.items) THEN <<>>
    ELSE (IF IsDict(ItemValue(payload, i))
          THEN DomainEntries(ItemName(payload, i), ItemValue(payload, i), 1)
          ELSE <<>>) \o LocaleEntries(payload, i + 1)

Entries(payload) == IF IsDict(payload) THEN LocaleEntries(payload, 1) ELSE <<>>

\* "flask translations pull <branch> [--force]" starts: the command's process
\* builds the application (init_app) and enters _cli_pull
CliStart(force) ==
    /\ cli.pc = "off"
    /\ LET r == InitApp(config, [mem |-> <<>>, ext |-> extcache], fs)
       IN  /\ SetCache("cli", r)
           /\ cli' = [pc |-> IF r.raised = PyNone THEN "AuthCheck" ELSE "Crashed",
                      step |-> "next", force |-> force, fetched |-> FALSE,
                      resp |-> PyNone, payload |-> PyNone, i |-> 1, j |-> 1,
                      written |-> 0, skipped |-> 0, fs0 |-> fs]
    /\ lastGet' = NoGet
    /\ UNCHANGED <<targs, tret, lastSet, racers, config, fs, webPc, reqs, prev>>

\* a step of the command that touches neither the files nor the caches
CliStep(next) ==
    /\ cli' = next
    /\ lastGet' = NoGet
    /\ UNCHANGED <<targs, tret, lastSet, racers, config, fs, memcache, extcache,
                 webPc, reqs, prev>>

\* the command going on to fetch without a token
PullAuthCheck_NoCheck ==
    /\ cli.pc = "AuthCheck"
    /\ CliStep([cli EXCEPT !.pc = "Fetch"])

\* token = cfg.get(...) or os.getenv(...); if not token: raise ClickException
PullAuthCheck ==
    /\ cli.pc = "AuthCheck"
    /\ CliStep([cli EXCEPT !.pc = IF config.token THEN "Fetch" ELSE "Failed"])

\* requests.get(...); resp.raise_for_status()
PullFetch(resp) ==
    /\ cli.pc = "Fetch"
    /\ CliStep([cli EXCEPT !.fetched = TRUE,
                           !.resp = resp,
                           !.pc = IF resp.status = "error" THEN "Failed" ELSE "Parse"])

\* payload = resp.json()
PullParse ==
    /\ cli.pc = "Parse"
    /\ CliStep(IF cli.resp.body = Garbage
               THEN [cli EXCEPT !.pc = "Failed"]
               ELSE [cli EXCEPT !.payload = cli.resp.body, !.pc = "ValidateShape"])

\* if not isinstance(payload, dict): raise ...; written = 0; skipped = 0
PullValidateShape ==
    /\ cli.pc = "ValidateShape"
    /\ CliStep(IF ~IsDict(cli.payload)
               THEN [cli EXCEPT !.pc = "Failed"]
               ELSE [cli EXCEPT !.pc = "PerEntryWrite", !.written = 0, !.skipped = 0,
                                !.i = 1, !.j = 1])

InLoop == cli.pc = "PerEntryWrite" /\ cli.step = "next"

AtLocale == cli.i <= Len(cli.payload.items)

CurLocale == ItemName(cli.payload, cli.i)

CurDomains == ItemValue(cli.payload, cli.i)

AtDomain == AtLocale /\ IsDict(CurDomains) /\ cli.j <= Len(CurDomains.items)

CurDomain == ItemName(CurDomains, cli.j)

CurTranslations == ItemValue(CurDomains, cli.j)

\* out_path
OutPath == FilePath(CurDomain, CurLocale)

\* if not isinstance(domains, dict): continue
PullSkipLocale ==
    /\ InLoop /\ AtLocale /\ ~IsDict(CurDomains)
    /\ CliStep([cli EXCEPT !.i = @ + 1, !.j = 1])

\* the inner loop ends
PullEndDomains ==
    /\ InLoop /\ AtLocale /\ IsDict(CurDomains) /\ ~AtDomain
    /\ CliStep([cli EXCEPT !.i = @ + 1, !.j = 1])

\* a domain whose value is no mapping counted as skipped
PullSkipDomain_Counted ==
    /\ InLoop /\ AtDomain /\ ~IsDict(CurTranslations)
    /\ CliStep([cli EXCEPT !.skipped = @ + 1, !.j = @ + 1])

\* if not isinstance(translations, dict): continue
PullSkipDomain ==
    /\ InLoop /\ AtDomain /\ ~IsDict(CurTranslations)
    /\ CliStep([cli EXCEPT !.j = @ + 1])

\* if out_path.exists() and not force: skipped += 1; continue
PullSkipExisting ==
    /\ InLoop /\ AtDomain /\ IsDict(CurTranslations)
    /\ fs[OutPath].exists /\ ~cli.force
    /\ CliStep([cli EXCEPT !.skipped = @ + 1, !.j = @ + 1])

\* the command writing whether or not the target exists
PullOpenTmp_IgnoreExisting ==
    /\ InLoop /\ AtDomain /\ IsDict(CurTranslations)
    /\ fs' = [fs EXCEPT ![TmpPath(OutPath)] = FileOf(<<>>)]
    /\ cli' = [cli EXCEPT !.step = "write"]
    /\ lastGet' = NoGet
    /\ UNCHANGED <<targs, tret, lastSet, racers, config, memcache, extcache, webPc, reqs, prev>>

\* open(tmp_path, 'w'): the temporary sibling exists and is empty
PullOpenTmp ==
    /\ InLoop /\ AtDomain /\ IsDict(CurTranslations)
    /\ ~(fs[OutPath].exists /\ ~cli.force)
    /\ fs' = [fs EXCEPT ![TmpPath(OutPath)] = FileOf(<<>>)]
    /\ cli' = [cli EXCEPT !.step = "write"]
    /\ lastGet' = NoGet
    /\ UNCHANGED <<targs, tret, lastSet, racers, config, memcache, extcache, webPc, reqs, prev>>

\* json.dump(...), f.write('\n'): the text reaches the file piece by piece
PullWriteTmp ==
    /\ cli.pc = "PerEntryWrite" /\ cli.step = "write"
    /\ LET tmp  == TmpPath(OutPath)
           text == Dump(CurTranslations)
           n    == Len(fs[tmp].data)
       IN  /\ n < Len(text)
           /\ fs' = [fs EXCEPT ![tmp] = FileOf(Append(fs[tmp].data, text[n + 1]))]
    /\ lastGet' = NoGet
    /\ UNCHANGED <<targs, tret, lastSet, racers, config, memcache, extcache,
                 webPc, reqs, cli, prev>>

\* the rename made inside the with block, before the text is all written
PullRename_BeforeClose ==
    /\ cli.pc = "PerEntryWrite" /\ cli.step = "write"
    /\ LET tmp == TmpPath(OutPath)
       IN  fs' = [fs EXCEPT ![OutPath] = fs[tmp], ![tmp] = NoFile]
    /\ cli' = [cli EXCEPT !.step = "set"]
    /\ lastGet' = NoGet
    /\ UNCHANGED <<targs, tret, lastSet, racers, config, memcache, extcache, webPc, reqs, prev>>

\* the with block ends (the file is closed); tmp_path.replace(out_path)
PullRename ==
    /\ cli.pc = "PerEntryWrite" /\ cli.step = "write"
    /\ LET tmp == TmpPath(OutPath)
       IN  /\ fs[tmp].data = Dump(CurTranslations)
           /\ fs' = [fs EXCEPT ![OutPath] = fs[tmp], ![tmp] = NoFile]
    /\ cli' = [cli EXCEPT !.step = "set"]
    /\ lastGet' = NoGet
    /\ UNCHANGED <<targs, tret, lastSet, racers, config, memcache, extcache, webPc, reqs, prev>>

\* self._cache_set(domain, locale, translations); written += 1
PullCacheSet ==
    /\ cli.pc = "PerEntryWrite" /\ cli.step = "set"
    /\ SetCache("cli", CacheSet(config, CacheOf("cli"), CurDomain, CurLocale, CurTranslations))
    /\ cli' = [cli EXCEPT !.step = "next", !.written = @ + 1, !.j = @ + 1]
    /\ lastGet' = NoGet
    /\ UNCHANGED <<targs, tret, lastSet, racers, config, fs, webPc, reqs, prev>>

\* the outer loop ends
PullEndLocales ==
    /\ InLoop /\ ~AtLocale
    /\ CliStep([cli EXCEPT !.pc = "Summary"])

\* click.echo(f'Done. Written: {written}, skipped: {skipped}')
PullSummary ==
    /\ cli.pc = "Summary"
    /\ CliStep([cli EXCEPT !.pc = "Done"])

\* no target of an entry of the payload existed when the command started
StartedFresh ==
    \A i \in 1..Len(Entries(cli.payload)) :
        ~cli.fs0[FilePath(Entries(cli.payload)[i][2], Entries(cli.payload)[i][1])].exists

\* the command's process ends, and its process-wide map with it
CliExit ==
    /\ cli.pc \in {"Done", "Failed", "Crashed"}
    /\ cli' = CliOff
    /\ memcache' = [memcache EXCEPT !["cli"] = <<>>]
    /\ prev' = IF cli.pc = "Done" /\ StartedFresh
               THEN [ok |-> TRUE, payload |-> cli.payload,
                     written |-> cli.written, skipped |-> cli.skipped]
               ELSE NoRun
    /\ lastGet' = NoGet
    /\ UNCHANGED <<targs, tret, lastSet, racers, config, fs, extcache, webPc, reqs>>

Next ==
    \/ WebBoot
    \/ \E r \in Reqs, header \in Headers : BeforeRequest(r, header)
    \/ \E r \in Reqs : EndRequest(r)
    \/ \E p \in Pairs : CacheGetCall(p[1], p[2])
    \/ \E key \in CacheKeys : Evict(key)
    \/ \E force \in BOOLEAN : CliStart(force)
    \/ PullAuthCheck
    \/ \E resp \in Responses : PullFetch(resp)
    \/ PullParse
    \/ PullValidateShape
    \/ PullSkipLocale
    \/ PullEndDomains
    \/ PullSkipDomain
    \/ PullSkipExisting
    \/ PullOpenTmp
    \/ PullWriteTmp
    \/ PullRename
    \/ PullCacheSet
    \/ PullEndLocales
    \/ PullSummary
    \/ CliExit

Spec == Init /\ [][Next]_vars

-----------------------------------------------------------------------------
(* Race specification: two threads of the serving process inside           *)
(* _cache_get for the same pair, statement by statement, next to one run   *)
(* of "translations pull --force"                                          *)

Racers == {"t1", "t2"}

\* the configurations under which the command gets to its loop
RaceConfigs == {c \in Configs : c.token}

\* the provider answers with a dictionary for every configured pair
RaceResponses ==
    { RespOk(PyODict(<< <<"en", PyODict(<< <<"messages", D2>> >>)>>,
                        <<"fr", PyODict(<< <<"messages", D0>> >>)>> >>)) }

\* the serving process is up with nothing cached, and both threads are about
\* to call _cache_get for the same pair
InitRace ==
    /\ targs = [via |-> "t", g |-> <<>>, key |-> KA, domain |-> "messages",
                parameters |-> PyNone]
    /\ tret = TPending
    /\ config \in RaceConfigs
    /\ \E files \in [TargetPaths -> UNION {InitialFiles[p] : p \in TargetPaths}] :
          /\ \A p \in TargetPaths : files[p] \in InitialFiles[p]
          /\ fs = [p \in Paths |-> IF p \in TargetPaths THEN files[p] ELSE NoFile]
    /\ memcache = [p \in Procs |-> <<>>]
    /\ extcache = <<>>
    /\ webPc = "serving"
    /\ reqs = [r \in Reqs |-> IdleReq]
    /\ cli = CliOff
    /\ lastGet = NoGet
    /\ lastSet = NoSet
    /\ \E p \in Pairs :
          racers = [r \in Racers |-> [pc |-> "get", domain |-> p[1], locale |-> p[2],
                                      val |-> PyNone, loads |-> 0]]
    /\ prev = NoRun

\* key = self._cache_key(domain, locale)
RaceKey(r) == CacheKey(racers[r].domain, racers[r].locale)

\* a step of thread r that touches neither the files nor the caches
RaceStep(r, next) ==
    /\ racers' = [racers EXCEPT ![r] = next]
    /\ UNCHANGED <<targs, tret, config, fs, memcache, extcache, webPc, reqs, cli,
                   lastGet, lastSet, prev>>

\* the miss path reserving the key with an empty dictionary before it reads
RaceGet_Placeholder(r) ==
    /\ racers[r].pc = "get"
    /\ LET held == IF config.cache = "memory"
                   THEN IF RaceKey(r) \in DOMAIN memcache["web"]
                        THEN memcache["web"][RaceKey(r)] ELSE PyNone
                   ELSE ExtGet(extcache, RaceKey(r))
       IN  IF held = PyNone
           THEN /\ SetCache("web", CacheSet(config, CacheOf("web"), racers[r].domain,
                                            racers[r].locale, D0))
                /\ racers' = [racers EXCEPT ![r].pc = "read"]
           ELSE /\ UNCHANGED <<memcache, extcache>>
                /\ racers' = [racers EXCEPT
                                 ![r].pc = IF config.cache = "memory" THEN "ret" ELSE "done",
                                 ![r].val = IF config.cache = "memory" THEN @ ELSE held]
    /\ UNCHANGED <<targs, tret, config, fs, webPc, reqs, cli, lastGet, lastSet, prev>>

\* if key not in store: ...  /  val = cache.get(key); if val is None: ...
RaceGet(r) ==
    /\ racers[r].pc = "get"
    /\ IF config.cache = "memory"
       THEN RaceStep(r, [racers[r] EXCEPT !.pc = IF RaceKey(r) \notin DOMAIN memcache["web"]
                                                 THEN "read" ELSE "ret"])
       ELSE RaceStep(r, [racers[r] EXCEPT !.val = ExtGet(extcache, RaceKey(r)),
                                          !.pc = IF ExtGet(extcache, RaceKey(r)) = PyNone
                                                 THEN "read" ELSE "done"])

\* self._read_translations_file(domain, locale); an exception ends the call
RaceRead(r) ==
    /\ racers[r].pc = "read"
    /\ LET read == ReadTranslationsFile(fs, racers[r].domain, racers[r].locale)
       IN  RaceStep(r, [racers[r] EXCEPT !.val = read, !.loads = @ + 1,
                                         !.pc = IF IsRaise(read) THEN "failed" ELSE "store"])

\* store[key] = <what was read>  /  self._cache_set(domain, locale, val); return val
RaceStore(r) ==
    /\ racers[r].pc = "store"
    /\ SetCache("web", CacheSet(config, CacheOf("web"), racers[r].domain,
                                racers[r].locale, racers[r].val))
    /\ racers' = [racers EXCEPT ![r].pc = IF config.cache = "memory" THEN "ret" ELSE "done"]
    /\ UNCHANGED <<targs, tret, config, fs, webPc, reqs, cli, lastGet, lastSet, prev>>

\* return store[key]
RaceRet(r) ==
    /\ racers[r].pc = "ret"
    /\ RaceStep(r, [racers[r] EXCEPT !.val = memcache["web"][RaceKey(r)], !.pc = "done"])

NextRace ==
    \/ \E r \in Racers : RaceGet(r)
    \/ \E r \in Racers : RaceRead(r)
    \/ \E r \in Racers : RaceStore(r)
    \/ \E r \in Racers : RaceRet(r)
    \/ CliStart(TRUE)
    \/ PullAuthCheck
    \/ \E resp \in RaceResponses : PullFetch(resp)
    \/ PullParse
    \/ PullValidateShape
    \/ PullEndDomains
    \/ PullOpenTmp
    \/ PullWriteTmp
    \/ PullRename
    \/ PullCacheSet
    \/ PullEndLocales
    \/ PullSummary

SpecRace == InitRace /\ [][NextRace]_vars

-----------------------------------------------------------------------------
(* Properties of the lookup *)

HasKey(dict, key) == dict.ty = "dict" /\ key \in DOMAIN dict.d

TPrimary == GGet(targs.g, "translations_" \o targs.domain)

TFallback == GGet(targs.g, "fallback_translations_" \o targs.domain)

TReturned == tret # TPending

\* name occurs in s as a substring
Occurs(name, s) ==
    \E i \in 1..(Len(s) + 1) :
        i + Len(name) - 1 <= Len(s) /\ SubSeq(s, i, i + Len(name) - 1) = name

\* C1: a key of the primary dictionary resolves to the primary value whatever
\* the fallback dictionary holds, and a key missing from the primary
\* dictionary but held by the fallback dictionary resolves to the fallback
\* value; translate(key, domain), called without parameters, returns exactly
\* that value, and given parameters they are substituted into that value.
C1_FallbackChainOrder ==
    TReturned =>
        LET chosen == IF HasKey(TPrimary, targs.key)
                      THEN PyStr(TPrimary.d[targs.key])
                      ELSE PyStr(TFallback.d[targs.key])
        IN  (HasKey(TPrimary, targs.key) \/ HasKey(TFallback, targs.key)) =>
                /\ tret = Substitute(chosen, targs.parameters)
                /\ targs.parameters = PyNone => tret = chosen

C1_Witness ==
    /\ TReturned
    /\ targs.parameters = PyNone
    /\ HasKey(TPrimary, targs.key)
    /\ HasKey(TFallback, targs.key)
    /\ TPrimary.d[targs.key] # TFallback.d[targs.key]
    /\ tret = PyStr(TPrimary.d[targs.key])

\* C2 as stated: a key that neither dictionary holds is returned unchanged.
C2_KeyUnchanged ==
    (TReturned /\ ~HasKey(TPrimary, targs.key) /\ ~HasKey(TFallback, targs.key))
        => tret = PyStr(targs.key)

\* C2 as amended: a key that neither dictionary holds never raises; it is
\* returned unchanged when no parameters are supplied, when the request
\* context has no fallback dictionary for the domain, or when no parameter
\* name occurs in the key; with a fallback dictionary that has entries it is
\* returned with the parameters substituted into it.
C2_KeyPassthrough ==
    (TReturned /\ ~HasKey(TPrimary, targs.key) /\ ~HasKey(TFallback, targs.key))
        => /\ tret.ty = "str"
           /\ (~Truthy(targs.parameters) \/ TFallback = PyNone) => tret = PyStr(targs.key)
           /\ (Truthy(targs.parameters) /\
                \A i \in 1..Len(targs.parameters.items) :
                    ~Occurs(targs.parameters.items[i][1], targs.key))
                  => tret = PyStr(targs.key)
           /\ Truthy(TFallback) => tret = Substitute(PyStr(targs.key), targs.parameters)

C2_Witness ==
    /\ TReturned
    /\ Truthy(TFallback)
    /\ ~HasKey(TPrimary, targs.key) /\ ~HasKey(TFallback, targs.key)
    /\ Truthy(targs.parameters)
    /\ tret.ty = "str" /\ tret # PyStr(targs.key)

\* C5: t() never raises: whatever flask.g holds for the domain (primary
\* dictionary unset, empty or present; fallback dictionary unset, empty or
\* present; domain never loaded), whatever the key and the parameters, it
\* returns a string; and with no dictionary at any level (no primary entry
\* for the key, no fallback dictionary) that string is the original key.
C5_NeverRaises ==
    TReturned =>
        /\ tret.ty = "str"
        /\ (~HasKey(TPrimary, targs.key) /\ TFallback = PyNone) => tret = PyStr(targs.key)

C5_Witness ==
    /\ TReturned
    /\ TPrimary = PyNone /\ TFallback = PyNone
    /\ Truthy(targs.parameters)
    /\ Occurs(targs.parameters.items[1][1], targs.key)
    /\ tret = PyStr(targs.key)

\* C12 as stated: for a key the primary dictionary does not hold, with no
\* fallback dictionary at all for the domain the key is returned with no
\* parameter substitution; with a fallback dictionary that is present, one
\* with no entries included, but lacks the key, the key is returned with the
\* supplied parameters substituted into it.
C12_AbsentVersusLacking ==
    (TReturned /\ ~HasKey(TPrimary, targs.key)) =>
        /\ TFallback = PyNone => tret = PyStr(targs.key)
        /\ (TFallback # PyNone /\ ~HasKey(TFallback, targs.key)) =>
               tret = Substitute(PyStr(targs.key), targs.parameters)

\* the string the fallback chain chooses: the primary value, else the fallback
\* value, else the key itself
Candidate ==
    IF HasKey(TPrimary, targs.key) THEN TPrimary.d[targs.key]
    ELSE IF HasKey(TFallback, targs.key) THEN TFallback.d[targs.key]
    ELSE targs.key

\* s after the first n items, in order, each replaced in the running result
RECURSIVE AfterParams(_, _, _)
AfterParams(s, items, n) ==
    IF n = 0 THEN s
    ELSE Replace(AfterParams(s, items, n - 1), items[n][1], StrOf(items[n][2]))

\* the items last to first
Reversed(items) == [i \in 1..Len(items) |-> items[Len(items) + 1 - i]]

\* C13: a call that goes on to substitution (the primary dictionary holds the
\* key, or a fallback dictionary with entries is present) looks the key up as
\* given and substitutes into the candidate the chain chose: the result is
\* the candidate with, for one parameter after another in the mapping's
\* iteration order, every occurrence of the name in the running result
\* replaced by the string form of the value; with no parameters or an empty
\* mapping the candidate is returned as is; the template filter passes its
\* keyword arguments as the parameters.
C13_SubstitutionOrder ==
    TReturned =>
        /\ ~Truthy(targs.parameters) => tret = PyStr(Candidate)
        /\ (Truthy(targs.parameters) /\ (HasKey(TPrimary, targs.key) \/ Truthy(TFallback))) =>
              LET items == targs.parameters.items
              IN  /\ tret = PyStr(AfterParams(Candidate, items, Len(items)))
                  /\ (Len(items) = 1 /\ ~Occurs(items[1][1], StrOf(items[1][2]))) =>
                         ~Occurs(items[1][1], tret.s)

\* two parameters whose order matters: the first replacement produced the
\* text the second one replaced
C13_Witness ==
    /\ TReturned
    /\ targs.via = "trans"
    /\ Truthy(targs.parameters)
    /\ Len(targs.parameters.items) = 2
    /\ HasKey(TFallback, targs.key) /\ ~HasKey(TPrimary, targs.key)
    /\ tret = PyStr(AfterParams(Candidate, targs.parameters.items, 2))
    /\ tret # PyStr(AfterParams(Candidate, Reversed(targs.parameters.items), 2))
    /\ tret # PyStr(Candidate)

-----------------------------------------------------------------------------
(* Properties of the system *)

\* what cache.get / the process-wide map of the serving process holds for key
WebEntry(key) ==
    IF config.cache = "memory"
    THEN IF key \in DOMAIN memcache["web"] THEN memcache["web"][key] ELSE PyNone
    ELSE ExtGet(extcache, key)

\* the same after the step
WebEntryNext(key) ==
    IF config.cache = "memory"
    THEN IF key \in DOMAIN memcache'["web"] THEN memcache'["web"][key] ELSE PyNone
    ELSE ExtGet(extcache', key)

\* C3 as stated: after request setup the locale get_request_locale returns is
\* a supported locale or the fallback locale: the header value when it is
\* supported, the fallback locale when it is unsupported or missing.
C3_ResolvedLocale ==
    \A r \in Reqs :
        reqs[r].st = "ready" =>
            LET locale == GetRequestLocale(reqs[r].g)
                header == reqs[r].header
            IN  /\ locale \in Range(SUPPORTED_LOCALES) \cup {FALLBACK_LOCALE}
                /\ locale = IF header.present /\ header.value \in Range(SUPPORTED_LOCALES)
                            THEN header.value ELSE FALLBACK_LOCALE

\* C4: a _cache_get of a pair the cache has no entry for reads the Translation
\* Store exactly once and leaves what it read under "{domain}_{locale}"; a
\* _cache_get of a pair the cache holds (a later get, nothing evicted since)
\* reads nothing, returns the dictionary the cache holds and leaves it there;
\* and an entry leaves the cache only by eviction from the external cache.
C4_CachePopulation ==
    /\ [][lastGet' # NoGet =>
            LET key  == lastGet'.domain \o "_" \o lastGet'.locale
                file == fs[lastGet'.domain \o "_" \o lastGet'.locale \o ".json"]
            IN  IF WebEntry(key) = PyNone
                THEN /\ lastGet'.loads = 1
                     /\ file.exists =>
                           /\ lastGet'.val = Load(file.data)
                           /\ WebEntryNext(key) = lastGet'.val
                ELSE /\ lastGet'.loads = 0
                     /\ lastGet'.val = WebEntry(key)
                     /\ WebEntryNext(key) = WebEntry(key)]_vars
    /\ [][\A key \in CacheKeys :
            (WebEntry(key) # PyNone /\ WebEntryNext(key) = PyNone) =>
                /\ config.cache = "external"
                /\ extcache' = Drop(extcache, key)
                /\ lastGet' = NoGet]_vars

\* a get that found the entry an earlier get had put there
C4_Witness ==
    /\ lastGet # NoGet
    /\ lastGet.loads = 0
    /\ ~config.preload
    /\ cli = CliOff /\ prev = NoRun
    /\ \A p \in TargetPaths : fs[p].exists => fs[p] \in InitialFiles[p]
    /\ WebEntry(CacheKey(lastGet.domain, lastGet.locale)) = lastGet.val

\* the command is at an entry whose target exists, without --force
AtExistingNoForce ==
    /\ InLoop /\ AtDomain /\ IsDict(CurTranslations)
    /\ fs[OutPath].exists /\ ~cli.force

\* C6: without --force an entry whose target exists is skipped and counted as
\* skipped, and the step changes neither a file nor a cache entry; a target
\* that existed when the run started keeps its content through the run; and
\* when a completed run that started with none of its targets existing is
\* followed by a run without --force on the same payload, the first reported
\* every entry written and none skipped, the second none written and every
\* entry skipped.
C6_NoOverwrite ==
    /\ [][(AtExistingNoForce /\ cli' # cli) =>
            /\ cli'.skipped = cli.skipped + 1
            /\ cli'.written = cli.written
            /\ cli'.pc = "PerEntryWrite" /\ cli'.step = "next"
            /\ cli'.i = cli.i /\ cli'.j = cli.j + 1
            /\ UNCHANGED <<fs, memcache, extcache>>]_vars
    /\ [](cli.pc \notin {"off", "Crashed"} /\ ~cli.force =>
            \A p \in TargetPaths : cli.fs0[p].exists => fs[p] = cli.fs0[p])
    /\ []((cli.pc = "Done" /\ StartedFresh) =>
            /\ cli.written = Len(Entries(cli.payload))
            /\ cli.skipped = 0)
    /\ []((cli.pc = "Done" /\ ~cli.force /\ prev # NoRun /\ prev.payload = cli.payload) =>
            /\ prev.written = Len(Entries(cli.payload))
            /\ prev.skipped = 0
            /\ cli.written = 0
            /\ cli.skipped = Len(Entries(cli.payload)))

\* the second of two runs on a payload of two entries, all skipped
C6_Witness ==
    /\ cli.pc = "Done" /\ ~cli.force
    /\ prev # NoRun /\ prev.payload = cli.payload
    /\ prev.written = 2
    /\ cli.skipped = 2

\* the texts the running command may put at path
PulledTexts(path) ==
    {FileOf(Dump(Entries(cli.payload)[i][3])) :
        i \in {n \in 1..Len(Entries(cli.payload)) :
                 FilePath(Entries(cli.payload)[n][2], Entries(cli.payload)[n][1]) = path}}

\* C7: whatever a reader opens at a target path is a whole JSON object: while
\* the pull command runs, each target is missing as before, holds what it
\* held when the command started, or holds the whole new text; no read of a
\* target fails to parse.
C7_AtomicVisibility ==
    /\ \A p \in TargetPaths : fs[p].exists => IsJsonObject(fs[p].data)
    /\ cli.pc \in {"PerEntryWrite", "Summary", "Done"} =>
          \A p \in TargetPaths : fs[p] = cli.fs0[p] \/ fs[p] \in PulledTexts(p)
    /\ lastGet # NoGet /\ IsRaise(lastGet.val) => lastGet.val.exc = "FileNotFoundError"
    /\ \A r \in Reqs : reqs[r].st = "failed" => reqs[r].raised.exc = "FileNotFoundError"
    /\ webPc # "crashed"

\* a reader read the target while its temporary sibling was half written
C7_Witness ==
    /\ cli.pc = "PerEntryWrite" /\ cli.step = "write"
    /\ fs[TmpPath(OutPath)].exists
    /\ Len(fs[TmpPath(OutPath)].data) = 2
    /\ ~IsJsonObject(fs[TmpPath(OutPath)].data)
    /\ fs[OutPath].exists
    /\ lastGet # NoGet
    /\ lastGet.domain = CurDomain /\ lastGet.locale = CurLocale
    /\ lastGet.loads = 1
    /\ lastGet.val = Load(fs[OutPath].data)

\* the entries the finished run wrote
WrittenEntries ==
    {i \in 1..Len(Entries(cli.payload)) :
        cli.force \/
        ~cli.fs0[FilePath(Entries(cli.payload)[i][2], Entries(cli.payload)[i][1])].exists}

\* C8 as stated: once the pull command has finished, a request starting in the
\* already-running serving process gets, for every pair the command wrote,
\* the dictionary that was pulled.
C8_CacheRefresh ==
    (webPc = "serving" /\ cli.pc = "Done") =>
        \A i \in WrittenEntries :
            LET e == Entries(cli.payload)[i]
            IN  CacheGet(config, CacheOf("web"), fs, e[2], e[1]).val = e[3]

\* C9: with preload enabled, startup ends with the application serving; every
\* configured pair whose file exists has a cache entry equal to the parsed
\* file, and every pair whose file is missing has no entry.
C9_PreloadTolerant ==
    [][(webPc = "boot" /\ webPc' # "boot" /\ config.preload) =>
          /\ webPc' = "serving"
          /\ \A p \in Pairs :
                LET file == fs[FilePath(p[1], p[2])]
                IN  WebEntryNext(CacheKey(p[1], p[2])) =
                        IF file.exists THEN Load(file.data) ELSE PyNone]_vars

\* startup got past a missing first pair and loaded the second
C9_Witness ==
    /\ webPc = "serving" /\ config.preload
    /\ cli = CliOff /\ prev = NoRun
    /\ \A r \in Reqs : reqs[r].st = "idle"
    /\ lastGet = NoGet
    /\ ~fs[FilePath(PreloadPairs[1][1], PreloadPairs[1][2])].exists
    /\ fs[FilePath(PreloadPairs[2][1], PreloadPairs[2][2])].exists
    /\ WebEntry(CacheKey(PreloadPairs[1][1], PreloadPairs[1][2])) = PyNone
    /\ WebEntry(CacheKey(PreloadPairs[2][1], PreloadPairs[2][2])) # PyNone

StageSteps ==
    { <<"off", "AuthCheck">>,
      <<"AuthCheck", "Fetch">>, <<"AuthCheck", "Failed">>,
      <<"Fetch", "Parse">>, <<"Fetch", "Failed">>,
      <<"Parse", "ValidateShape">>, <<"Parse", "Failed">>,
      <<"ValidateShape", "PerEntryWrite">>, <<"ValidateShape", "Failed">>,
      <<"PerEntryWrite", "Summary">>,
      <<"Summary", "Done">>,
      <<"Done", "off">>, <<"Failed", "off">> }

\* C10: the command goes AuthCheck, Fetch, Parse, ValidateShape,
\* PerEntryWrite, Summary in that order, leaving that order only by failing
\* in one of the first four; without a token it fails before any fetch is
\* issued; a failed fetch, an unparsable body and a payload that is no
\* mapping each make it fail; and a command that failed has written no file
\* and changed no cache entry.
C10_StagesAndFatalErrors ==
    /\ [][cli'.pc # cli.pc => <<cli.pc, cli'.pc>> \in StageSteps]_vars
    /\ [](~config.token /\ cli.pc # "off" => ~cli.fetched /\ cli.pc \in {"AuthCheck", "Failed"})
    /\ [](cli.pc \in {"ValidateShape", "PerEntryWrite", "Summary", "Done"} =>
            /\ config.token /\ cli.fetched
            /\ cli.resp.status = "ok" /\ cli.resp.body # Garbage)
    /\ [](cli.pc \in {"PerEntryWrite", "Summary", "Done"} => IsDict(cli.payload))
    /\ [](cli.pc \in {"AuthCheck", "Fetch", "Parse", "ValidateShape", "Failed"} =>
            /\ fs = cli.fs0
            /\ cli.written = 0 /\ cli.skipped = 0)
    /\ [][(cli.pc \in {"AuthCheck", "Fetch", "Parse", "ValidateShape"} /\ cli' # cli) =>
            UNCHANGED <<fs, memcache, extcache>>]_vars

\* the command failed on a payload that is no mapping, after the fetch
C10_Witness ==
    /\ cli.pc = "Failed"
    /\ cli.fetched
    /\ cli.resp = RespOk(JsonList)
    /\ \E p \in TargetPaths : fs[p].exists
    /\ extcache # <<>>

\* the locale request setup loads for: the header value when it is a
\* supported locale, the fallback locale otherwise
LoadedLocale(header) ==
    IF header.present /\ header.value \in Range(SUPPORTED_LOCALES)
    THEN header.value ELSE FALLBACK_LOCALE

\* C11: when request setup completes, for every configured domain the primary
\* dictionary in the request context is the cache entry for (domain, L), L
\* being the header value when supported and the fallback locale otherwise;
\* the fallback dictionary is the cache entry for (domain, fallback locale)
\* as it is at that moment; and when L is the fallback locale the two are the
\* same dictionary.
C11_LoadedPair ==
    [][\A r \in Reqs :
          (reqs[r].st = "idle" /\ reqs'[r].st = "ready") =>
              LET L == LoadedLocale(reqs'[r].header)
                  g == reqs'[r].g
              IN  \A d \in Range(SUPPORTED_DOMAINS) :
                     /\ "translations_" \o d \in DOMAIN g
                     /\ "fallback_translations_" \o d \in DOMAIN g
                     /\ g["translations_" \o d].ty = "dict"
                     /\ g["translations_" \o d] = WebEntryNext(CacheKey(d, L))
                     /\ g["fallback_translations_" \o d] =
                            WebEntryNext(CacheKey(d, FALLBACK_LOCALE))
                     /\ L = FALLBACK_LOCALE =>
                            g["fallback_translations_" \o d] = g["translations_" \o d]]_vars

\* a request for a supported locale other than the fallback one holds two
\* different dictionaries, each the entry of its own pair
C11_Witness ==
    \E r \in Reqs :
        /\ reqs[r].st = "ready"
        /\ reqs[r].header = Header("fr")
        /\ reqs[r].g["translations_messages"] # reqs[r].g["fallback_translations_messages"]
        /\ reqs[r].g["translations_messages"] = WebEntry(CacheKey("messages", "fr"))
        /\ reqs[r].g["fallback_translations_messages"] = WebEntry(CacheKey("messages", "en"))

\* C14: a _cache_set with no external cache configured stores the value in
\* the process-wide map under "{domain}_{locale}" and calls no external set;
\* with an external cache and no timeout configured, set is called once,
\* without a timeout; with a timeout configured, set is called with the
\* timeout first and, only when that call is rejected, exactly once more
\* without it; in every case the entry ends up stored under
\* "{domain}_{locale}" and no other entry changes.
C14_SetAndTimeout ==
    [][lastSet' # NoSet =>
          LET key == lastSet'.domain \o "_" \o lastSet'.locale
          IN  /\ config.cache = "memory" =>
                    /\ lastSet'.calls = <<>>
                    /\ key \in DOMAIN memcache'["web"]
                    /\ memcache'["web"][key] = lastSet'.value
                    /\ extcache' = extcache
              /\ config.cache # "memory" =>
                    /\ lastSet'.calls =
                          IF config.timeout = PyNone THEN <<"plain">>
                          ELSE IF config.timeoutKw THEN <<"timeout">>
                          ELSE <<"timeout", "plain">>
                    /\ key \in DOMAIN extcache'
                    /\ extcache'[key] = lastSet'.value
                    /\ memcache' = memcache
              /\ \A k \in CacheKeys \ {key} :
                    /\ WebEntryNext(k) = WebEntry(k)
                    /\ k \in DOMAIN memcache'["web"] <=> k \in DOMAIN memcache["web"]]_vars

\* a set whose first call, with the timeout, was rejected and whose retry
\* stored the entry, next to an older one
C14_Witness ==
    /\ lastSet # NoSet
    /\ lastSet.calls = <<"timeout", "plain">>
    /\ config.timeout = PyInt(0)
    /\ extcache[CacheKey(lastSet.domain, lastSet.locale)] = lastSet.value
    /\ lastSet.value = D0
    /\ \E k \in DOMAIN extcache : extcache[k] = D2

\* the (i, j) of the payload's (locale, domain) entries whose locale value and
\* domain value are both mappings
WellShaped(payload) ==
    UNION {IF IsDict(ItemValue(payload, i))
           THEN {<<i, j>> : j \in {n \in 1..Len(ItemValue(payload, i).items) :
                                     IsDict(ItemValue(ItemValue(payload, i), n))}}
           ELSE {} : i \in 1..Len(payload.items)}

\* the command is at a locale, or at a domain, whose value is no mapping
AtMalformed ==
    /\ InLoop /\ AtLocale
    /\ \/ ~IsDict(CurDomains)
       \/ AtDomain /\ ~IsDict(CurTranslations)

\* C15: the step the command takes at a locale or a domain whose value is no
\* mapping writes no file, changes no cache entry, counts nothing as written
\* or skipped and leaves the command in its loop, at the next locale or
\* domain; the loop is left only towards the summary; and at the summary
\* written + skipped is the number of well-shaped (locale, domain) entries,
\* each of which has its target file.
C15_MalformedSkipped ==
    /\ [][(AtMalformed /\ cli' # cli) =>
            /\ UNCHANGED <<fs, memcache, extcache>>
            /\ cli'.written = cli.written /\ cli'.skipped = cli.skipped
            /\ cli'.pc = "PerEntryWrite" /\ cli'.step = "next"
            /\ IF IsDict(CurDomains)
               THEN cli'.i = cli.i /\ cli'.j = cli.j + 1
               ELSE cli'.i = cli.i + 1 /\ cli'.j = 1]_vars
    /\ [][(cli.pc = "PerEntryWrite" /\ cli'.pc # "PerEntryWrite") =>
            /\ cli'.pc = "Summary"
            /\ cli.i = Len(cli.payload.items) + 1]_vars
    /\ [](cli.pc \in {"Summary", "Done"} =>
            /\ cli.written + cli.skipped = Cardinality(WellShaped(cli.payload))
            /\ \A e \in WellShaped(cli.payload) :
                  fs[FilePath(ItemName(ItemValue(cli.payload, e[1]), e[2]),
                              ItemName(cli.payload, e[1]))].exists)

\* a run over a payload with a malformed locale, a malformed domain and one
\* well-shaped entry, which it wrote
C15_Witness ==
    /\ cli.pc = "Done"
    /\ Len(cli.payload.items) = 2
    /\ ~IsDict(ItemValue(cli.payload, 1))
    /\ IsDict(ItemValue(cli.payload, 2))
    /\ ~IsDict(ItemValue(ItemValue(cli.payload, 2), 1))
    /\ Cardinality(WellShaped(cli.payload)) = 1
    /\ cli.written = 1 /\ cli.skipped = 0

\* what process p's cache holds for key
EntryOf(p, key) ==
    IF config.cache = "memory"
    THEN IF key \in DOMAIN memcache[p] THEN memcache[p][key] ELSE PyNone
    ELSE ExtGet(extcache, key)

\* the same after the step
EntryOfNext(p, key) ==
    IF config.cache = "memory"
    THEN IF key \in DOMAIN memcache'[p] THEN memcache'[p][key] ELSE PyNone
    ELSE ExtGet(extcache', key)

\* C16: while a request that completed setup is being served, no step of the
\* pull command, of another _cache_get or of the external cache changes the
\* dictionaries its context holds, and every translate call gives after a
\* step that changed a cache what it gave before it; and a _cache_set of the
\* pull command leaves under the key exactly the dictionary it was given,
\* whatever the entry held before.
C16_SnapshotIsolation ==
    /\ [][\A r \in Reqs :
            (reqs[r].st = "ready" /\ reqs'[r].st = "ready") =>
                /\ reqs'[r].g = reqs[r].g
                /\ (memcache' # memcache \/ extcache' # extcache) =>
                      \A key \in LookupKeys,
                         parameters \in {PyNone, PyODict(<< <<KA, PyStr(<<"c">>)>> >>)} :
                          t(reqs'[r].g, key, "messages", parameters) =
                              t(reqs[r].g, key, "messages", parameters)]_vars
    /\ [][(cli.pc = "PerEntryWrite" /\ cli.step = "set" /\ cli' # cli) =>
            /\ EntryOfNext("cli", CacheKey(CurDomain, CurLocale)) = CurTranslations
            /\ \A k \in CacheKeys \ {CacheKey(CurDomain, CurLocale)} :
                  EntryOfNext("cli", k) = EntryOf("cli", k)]_vars

\* a request still holds the dictionary it loaded while the shared cache
\* already holds the one a pull put there
C16_Witness ==
    \E r \in Reqs :
        /\ reqs[r].st = "ready"
        /\ reqs[r].header = Header("fr")
        /\ cli.pc = "Done"
        /\ WebEntry(CacheKey("messages", "fr")) # PyNone
        /\ WebEntry(CacheKey("messages", "fr")) # reqs[r].g["translations_messages"]
        /\ t(reqs[r].g, KBA, "messages", PyNone) #
               t([reqs[r].g EXCEPT !["translations_messages"] =
                                       WebEntry(CacheKey("messages", "fr"))],
                 KBA, "messages", PyNone)

\* the file of the pair the threads ask for
RaceFile(r) == fs[FilePath(racers[r].domain, racers[r].locale)]

AllReturned == \A r \in Racers : racers[r].pc = "done"

\* C17: two threads racing through _cache_get for the same pair, the files
\* left alone meanwhile: no thread reads the Translation Store more than once;
\* a thread fails only when the file is missing; and once both have returned,
\* each holds a dictionary equal to the parsed file and the cache entry left
\* behind equals it too.
C17_BenignRace ==
    /\ \A r \in Racers : racers[r].loads <= 1
    /\ cli = CliOff =>
          /\ \A r \in Racers : racers[r].pc = "failed" => ~RaceFile(r).exists
          /\ AllReturned =>
                \A r \in Racers :
                    /\ RaceFile(r).exists
                    /\ racers[r].val = Load(RaceFile(r).data)
                    /\ WebEntry(RaceKey(r)) = Load(RaceFile(r).data)

\* both threads missed, each read the file, and both returned
C17_Witness ==
    /\ cli = CliOff
    /\ AllReturned
    /\ \A r \in Racers : racers[r].loads = 1
    /\ \A r \in Racers : WebEntry(RaceKey(r)) = racers[r].val

\* C18 as stated: with an external cache, shared by the pull command and the
\* serving process, once a forced pull of the pair and a _cache_get that took
\* the miss path for it have both finished, the cache entry of the pair
\* equals the content of the pair's file.
C18_NoStaleEntry ==
    (config.cache = "external" /\ cli.pc = "Done" /\ AllReturned) =>
        \A r \in Racers :
            racers[r].loads = 1 =>
                ExtGet(extcache, RaceKey(r)) = Load(RaceFile(r).data)

====
